---- MODULE Spec2Model ----
(***************************************************************************)
(* The message-queue core of the worker services (workers/core/queue.py):  *)
(* QueueManager (publish, subscription callback, error path, retry timer,  *)
(* DLQ replay) over a NATS subject.                                        *)
(*                                                                         *)
(* QueueMessage objects live on a heap (objs); the in-flight and the       *)
(* dead-letter table map a message id to a heap reference, as the Python   *)
(* dicts hold references to the dataclass instances.                       *)
(***************************************************************************)
EXTENDS Integers, Sequences, FiniteSets, Bags, TLC

\* ---------------------------------------------------------------- bounds
MaxIds       == 1   \* calls of publish_message
MaxObjs      == 4   \* QueueMessage objects the callback may construct
MaxMalformed == 1   \* undecodable wire messages an outside publisher sends
MaxTime      == 1   \* ticks of the clock behind time.time()
MaxDirect    == 3   \* failures reported on the tracked record (SpecErrorPath)
BudgetSpread == 1   \* managers are built with max_retries in 3-BudgetSpread .. 3
MaxAttempt   == 6   \* retry attempts _calculate_retry_delay is asked about
JitterSteps  == 4   \* random.uniform(-1, 1) draws j / JitterSteps, |j| <= JitterSteps
MaxWorkers   == 3   \* scalers are built with min_workers, max_workers in 1 .. MaxWorkers
MaxCooldowns == 2   \* cooldown periods the clock runs past StartTime (SpecScaler)
MaxWarmCalls == 2   \* warm_cache() calls made besides the one of the startup

\* ------------------------------------------------------ program constants
DefaultMaxRetries == 3                      \* QueueMessage.max_retries default
retry_delays      == <<1, 5, 15, 60, 300>>  \* QueueManager.retry_delays
scaling_cooldown  == 60                     \* AutoScaler.scaling_cooldown
ServiceMinWorkers == 1                      \* AutoScaler(..., min_workers=1, ...)
ServiceMaxWorkers == 5                      \* AutoScaler(..., max_workers=5)
StartTime         == 1000                   \* time.time() when the scaler starts

None    == "None"
NoTime  == -1
NoObj   == 0

\* Members of the MessageStatus Enum (Enum members, not str values).
MessageStatus ==
    {"PENDING", "PROCESSING", "COMPLETED", "FAILED", "RETRY", "DEAD_LETTER"}

ServiceName       == "illustration-worker"
SubscribedSubject == "frame.generation"
OtherSubject      == "frame.other"
Subjects          == {SubscribedSubject, OtherSubject}
ReplySubject      == "frame.replies"
Payload(i)        == 10 * i   \* the opaque payload of the i-th publish
HandlerResult     == "result"
HandlerError      == "boom"

\* Every id a run can generate: one per publish_message call, one per replay
\* of a dead-lettered record (a record needs DefaultMaxRetries + 1 failures).
Ids     == 1 .. (MaxIds + MaxObjs)
Budgets == (DefaultMaxRetries - BudgetSpread) .. DefaultMaxRetries

VARIABLES
    max_retries,          \* QueueManager.max_retries (constructor argument)
    objs,                 \* heap of QueueMessage objects, indexed by reference
    processing_messages,  \* in-flight table: id -> reference
    dlq_messages,         \* dead-letter table: id -> reference
    wire,                 \* bag of published, not yet delivered messages
    timers,               \* bag of pending _retry_message tasks
    replaying,            \* bag of envelopes of replays suspended in publish
    cb,                   \* the subscription callback awaiting its handler
    now,                  \* time.time()
    nextId,               \* next id publish_message generates
    malformedSent,        \* undecodable messages sent so far
    directCalls,          \* failures reported on the tracked record so far
    min_workers,          \* AutoScaler.min_workers
    max_workers,          \* AutoScaler.max_workers
    current_workers,      \* AutoScaler.current_workers
    last_scale_time,      \* AutoScaler.last_scale_time
    is_warmed,            \* GPUCacheWarmer.is_warmed
    warm_pc,              \* per warm_cache() call: where the call stands
    init_pc,              \* where _initialize_services stands
    connected,            \* QueueManager.nc is set and connected
    subscription,         \* the subject of QueueManager.subscription, or None
    invoked,              \* per id: handler invocations
    failed,               \* per id: failures reported to the error path
    last                  \* the last operation: [op, id, subject, outcome]

scalerVars == <<min_workers, max_workers, current_workers, last_scale_time>>

serviceVars == <<is_warmed, warm_pc, init_pc, connected, subscription>>

vars == <<max_retries, objs, processing_messages, dlq_messages, wire, timers,
          replaying, cb, now, nextId, malformedSent, directCalls, scalerVars,
          serviceVars, invoked, failed, last>>

\* ------------------------------------------------------------- helpers
Refs == 1 .. Len(objs)

Put(t, k, v) == [x \in (DOMAIN t) \cup {k} |-> IF x = k THEN v ELSE t[x]]
Del(t, k)    == [x \in (DOMAIN t) \ {k} |-> t[x]]

NoCb == [obj |-> NoObj, subject |-> None, reply_to |-> None]

Op(op, id, subject, outcome) ==
    [op |-> op, id |-> id, subject |-> subject, outcome |-> outcome]

\* QueueMessage(id=..., data=..., status=..., created_at=...): the other
\* fields take the dataclass defaults.
NewQueueMessage(id, data, status, created_at) ==
    [id |-> id, data |-> data, status |-> status, retry_count |-> 0,
     max_retries |-> DefaultMaxRetries, created_at |-> created_at,
     processed_at |-> NoTime, error_message |-> None]

\* json.dumps raises TypeError on a value that is an Enum member: a
\* QueueMessage.__dict__ carries its status as a MessageStatus member.
JsonSerializable(d) ==
    IF "original_message" \in DOMAIN d
    THEN d.original_message.status \notin MessageStatus
    ELSE TRUE

\* nc.publish(subject, json.dumps(body).encode())
NcPublish(w, subject, body) ==
    w (+) SetToBag({[subject |-> subject, json |-> TRUE, body |-> body]})

\* json.loads(msg.data.decode()) succeeds and data["id"], data["data"] exist.
Decodable(e) ==
    /\ e.json
    /\ "id" \in DOMAIN e.body
    /\ "data" \in DOMAIN e.body

\* Wire messages that do not decode: not JSON, no "id", no "data".
MalformedMessages ==
    { [subject |-> SubscribedSubject, json |-> FALSE, body |-> [raw |-> "x"]],
      [subject |-> SubscribedSubject, json |-> TRUE,  body |-> [data |-> Payload(0)]],
      [subject |-> SubscribedSubject, json |-> TRUE,  body |-> [id |-> 0]] }

\* _calculate_retry_delay without the jitter: the table entry it picks.
BaseDelay(retry_count) ==
    LET i == IF retry_count >= Len(retry_delays)
             THEN Len(retry_delays) - 1 ELSE retry_count
    IN retry_delays[i + 1]

\* The envelope publish_message builds.
Envelope(id, data, reply_to) ==
    [id |-> id, data |-> data, reply_to |-> reply_to, created_at |-> now,
     service |-> ServiceName]

\* Faulty variant of RetryEnvelope: the envelope is stamped with the time of
\* the republish instead of message.created_at.
RetryEnvelope_Restamps(m) ==
    [id |-> m.id, data |-> m.data, retry_count |-> m.retry_count,
     created_at |-> now, service |-> ServiceName]

\* Faulty variant of RetryEnvelope: the envelope is built with an empty
\* payload instead of message.data.
RetryEnvelope_DropsData(m) ==
    [id |-> m.id, data |-> Payload(0), retry_count |-> m.retry_count,
     created_at |-> m.created_at, service |-> ServiceName]

\* The envelope _retry_message builds from the message object.
RetryEnvelope(m) ==
    [id |-> m.id, data |-> m.data, retry_count |-> m.retry_count,
     created_at |-> m.created_at, service |-> ServiceName]

Bump(f, id) == IF id \in DOMAIN f THEN [f EXCEPT ![id] = @ + 1] ELSE f

\* ---------------------------------------------------------------- Init
\* AutoScaler(queue_manager, min_workers, max_workers)
AutoScalerInit(mn, mx) ==
    /\ min_workers = mn
    /\ max_workers = mx
    /\ current_workers = mn
    /\ last_scale_time = 0

\* The calls of warm_cache(): the one _initialize_services makes, and the
\* others.
StartupCall == 0
WarmCalls   == StartupCall .. MaxWarmCalls

\* _initialize_services has run to its end: connected, warmed, subscribed.
ServiceRunning ==
    /\ is_warmed = TRUE
    /\ warm_pc = [c \in WarmCalls |-> IF c = StartupCall THEN "done" ELSE "idle"]
    /\ init_pc = "running"
    /\ connected = TRUE
    /\ subscription = SubscribedSubject

\* QueueManager(nats_url, service_name, max_retries): empty tables.
QueueManagerInit ==
    /\ max_retries \in Budgets
    /\ objs = <<>>
    /\ processing_messages = <<>>
    /\ dlq_messages = <<>>
    /\ wire = EmptyBag
    /\ timers = EmptyBag
    /\ replaying = EmptyBag
    /\ cb = NoCb
    /\ now = 0
    /\ nextId = 1
    /\ malformedSent = 0
    /\ directCalls = 0
    /\ invoked = [i \in Ids |-> 0]
    /\ failed = [i \in Ids |-> 0]
    /\ last = Op("__init__", 0, None, "returned")

\* The running service as FrameGeneratorService builds it: a QueueManager
\* with empty tables and the AutoScaler of the service.
Init ==
    /\ AutoScalerInit(ServiceMinWorkers, ServiceMaxWorkers)
    /\ ServiceRunning
    /\ QueueManagerInit

\* ------------------------------------------------------------- actions
\* Faulty variant of PublishMessage: the message is also entered in the
\* in-flight table, as pending.
PublishMessage_TracksRecord(subject, data, reply_to) ==
    /\ nextId <= MaxIds
    /\ wire' = NcPublish(wire, subject, Envelope(nextId, data, reply_to))
    /\ objs' = Append(objs, NewQueueMessage(nextId, data, "PENDING", now))
    /\ processing_messages' = Put(processing_messages, nextId, Len(objs) + 1)
    /\ nextId' = nextId + 1
    /\ last' = Op("publish_message", nextId, subject, "returned")
    /\ UNCHANGED <<scalerVars, serviceVars, replaying>>
    /\ UNCHANGED <<max_retries, dlq_messages, timers, cb, now, malformedSent,
                   directCalls, invoked, failed>>

\* publish_message(subject, data, reply_to)
PublishMessage(subject, data, reply_to) ==
    /\ nextId <= MaxIds
    /\ wire' = NcPublish(wire, subject, Envelope(nextId, data, reply_to))
    /\ nextId' = nextId + 1
    /\ last' = Op("publish_message", nextId, subject, "returned")
    /\ UNCHANGED <<scalerVars, serviceVars, replaying>>
    /\ UNCHANGED <<max_retries, objs, processing_messages, dlq_messages,
                   timers, cb, now, malformedSent, directCalls, invoked, failed>>

\* An outside publisher puts undecodable bytes on the subscribed subject.
SendMalformed(e) ==
    /\ malformedSent < MaxMalformed
    /\ wire' = wire (+) SetToBag({e})
    /\ malformedSent' = malformedSent + 1
    /\ last' = Op("external_publish", 0, e.subject, "returned")
    /\ UNCHANGED <<scalerVars, serviceVars, replaying>>
    /\ UNCHANGED <<max_retries, objs, processing_messages, dlq_messages,
                   timers, cb, now, nextId, directCalls, invoked, failed>>

\* message_handler(msg) up to `await handler(message)`.  The client awaits the
\* callback of a subscription for one message before it takes the next
\* (cb = NoCb), while every other task may run.  A message that does
\* not decode raises inside the try; the except clause then reads the local
\* `message`, which was never bound: UnboundLocalError leaves the callback.
MessageHandler(e) ==
    /\ cb = NoCb
    /\ BagIn(e, wire)
    /\ subscription # None
    /\ e.subject = subscription
    /\ wire' = wire (-) SetToBag({e})
    /\ IF Decodable(e)
       THEN /\ Len(objs) < MaxObjs
            /\ LET created == IF "created_at" \in DOMAIN e.body
                              THEN e.body.created_at ELSE now
                   m == NewQueueMessage(e.body.id, e.body.data,
                                        "PROCESSING", created)
                   o == Len(objs) + 1
               IN /\ objs' = Append(objs, m)
                  /\ processing_messages' = Put(processing_messages, m.id, o)
                  /\ cb' = [obj |-> o, subject |-> e.subject,
                            reply_to |-> IF "reply_to" \in DOMAIN e.body
                                         THEN e.body.reply_to ELSE None]
                  /\ invoked' = Bump(invoked, m.id)
                  /\ last' = Op("message_handler", m.id, e.subject, "awaiting")
       ELSE /\ last' = Op("message_handler", 0, e.subject, "UnboundLocalError")
            /\ UNCHANGED <<objs, processing_messages, cb, invoked>>
    /\ UNCHANGED <<scalerVars, serviceVars, replaying>>
    /\ UNCHANGED <<max_retries, dlq_messages, timers, now, nextId,
                   malformedSent, directCalls, failed>>

\* Faulty variant of HandlerReturns: the `if data.get("reply_to")` block is
\* missing.
HandlerReturns_NoReply ==
    /\ cb # NoCb
    /\ objs' = [objs EXCEPT ![cb.obj].status = "COMPLETED",
                            ![cb.obj].processed_at = now]
    /\ last' = Op("handler_returned", objs[cb.obj].id, cb.subject, "returned")
    /\ cb' = NoCb
    /\ UNCHANGED <<scalerVars, serviceVars, replaying>>
    /\ UNCHANGED <<max_retries, processing_messages, dlq_messages, timers,
                   wire, now, nextId, malformedSent, directCalls, invoked,
                   failed>>

\* The handler returned: the rest of the try block.
HandlerReturns ==
    /\ cb # NoCb
    /\ LET o == cb.obj IN
       /\ objs' = [objs EXCEPT ![o].status = "COMPLETED",
                               ![o].processed_at = now]
       /\ wire' = IF cb.reply_to # None
                  THEN NcPublish(wire, cb.reply_to,
                                 [message_id |-> objs[o].id,
                                  status |-> "completed",
                                  result |-> HandlerResult])
                  ELSE wire
       /\ last' = Op("handler_returned", objs[o].id, cb.subject, "returned")
    /\ cb' = NoCb
    /\ UNCHANGED <<scalerVars, serviceVars, replaying>>
    /\ UNCHANGED <<max_retries, processing_messages, dlq_messages, timers,
                   now, nextId, malformedSent, directCalls, invoked, failed>>

\* `message.retry_count <= message.max_retries`
WithinBudget(m) == m.retry_count <= m.max_retries

\* The body of the dead-letter publish.
DlqData(m, err) ==
    [original_message |-> m, error |-> err, moved_to_dlq_at |-> now]

\* The dead-letter branch of _handle_message_error: the tables after it.
DeadLetterTables(m, o) ==
    [processing |-> processing_messages,
     dlq |-> Put(dlq_messages, m.id, o)]

\* Faulty variant of ErrorPathTimers: asyncio.create_task is called after
\* the if/else, on both branches.
ErrorPathTimers_Always(o, subject, m) ==
    timers (+) SetToBag({[obj |-> o, subject |-> subject,
                          base |-> BaseDelay(m.retry_count)]})

\* Faulty variant of ErrorPathTimers: asyncio.create_task is called twice on
\* the retry branch.
ErrorPathTimers_Twice(o, subject, m) ==
    LET t == [obj |-> o, subject |-> subject,
              base |-> BaseDelay(m.retry_count)]
    IN IF WithinBudget(m) THEN timers (+) SetToBag({t}) (+) SetToBag({t})
       ELSE timers

\* The retry tasks after _handle_message_error on object o, whose bumped
\* record is m: asyncio.create_task(self._retry_message(...)) on the retry
\* branch only.
ErrorPathTimers(o, subject, m) ==
    IF WithinBudget(m)
    THEN timers (+) SetToBag({[obj |-> o, subject |-> subject,
                               base |-> BaseDelay(m.retry_count)]})
    ELSE timers

\* _handle_message_error(message, error, original_msg) on object o; w is the
\* wire as the caller leaves it.
HandleMessageError(o, err, subject, w) ==
    LET m == [objs[o] EXCEPT !.retry_count = @ + 1, !.error_message = err] IN
    /\ timers' = ErrorPathTimers(o, subject, m)
    /\ IF WithinBudget(m)
       THEN /\ objs' = [objs EXCEPT ![o] = [m EXCEPT !.status = "RETRY"]]
            /\ wire' = w
            /\ UNCHANGED <<processing_messages, dlq_messages>>
       ELSE LET d == [m EXCEPT !.status = "DEAD_LETTER"]
                t == DeadLetterTables(d, o)
            IN /\ objs' = [objs EXCEPT ![o] = d]
               /\ processing_messages' = t.processing
               /\ dlq_messages' = t.dlq
               /\ wire' = IF JsonSerializable(DlqData(d, err))
                          THEN NcPublish(w, subject \o ".dlq", DlqData(d, err))
                          ELSE w

\* How a call of _handle_message_error on object o ends.
ErrorPathOutcome(o, err) ==
    LET m == [objs[o] EXCEPT !.retry_count = @ + 1, !.error_message = err,
                             !.status = "DEAD_LETTER"] IN
    IF WithinBudget(m) \/ JsonSerializable(DlqData(m, err))
    THEN "returned" ELSE "TypeError"

\* The handler raised: the except clause of message_handler.
HandlerRaises ==
    /\ cb # NoCb
    /\ HandleMessageError(cb.obj, HandlerError, cb.subject, wire)
    /\ failed' = Bump(failed, objs[cb.obj].id)
    /\ last' = Op("handler_raised", objs[cb.obj].id, cb.subject,
                  ErrorPathOutcome(cb.obj, HandlerError))
    /\ cb' = NoCb
    /\ UNCHANGED <<scalerVars, serviceVars, replaying>>
    /\ UNCHANGED <<max_retries, now, nextId, malformedSent, directCalls,
                   invoked>>

\* _retry_message(message, delay, original_msg) after its sleep.
RetryMessage(t) ==
    /\ BagIn(t, timers)
    /\ timers' = timers (-) SetToBag({t})
    /\ wire' = NcPublish(wire, t.subject, RetryEnvelope(objs[t.obj]))
    /\ last' = Op("_retry_message", objs[t.obj].id, t.subject, "returned")
    /\ UNCHANGED <<scalerVars, serviceVars, replaying>>
    /\ UNCHANGED <<max_retries, objs, processing_messages, dlq_messages, cb,
                   now, nextId, malformedSent, directCalls, invoked, failed>>

\* Faulty variant of RepublishNotFound: the lookup is made after the publish.
RepublishNotFound_PublishesFirst(message_id, subject) ==
    /\ last' = Op("republish_dlq_message", message_id, subject, "ValueError")
    /\ wire' = NcPublish(wire, subject, Envelope(nextId, None, None))
    /\ UNCHANGED <<objs, processing_messages, dlq_messages, nextId>>

\* republish_dlq_message with an id that is not in the dead-letter table.
RepublishNotFound(message_id, subject) ==
    /\ last' = Op("republish_dlq_message", message_id, subject, "ValueError")
    /\ UNCHANGED <<objs, processing_messages, dlq_messages, wire, nextId>>

\* Faulty variant of RepublishFound: `del self.dlq_messages[message_id]` is
\* missing.
RepublishFound_KeepsDlqEntry(message_id, subject) ==
    LET o == dlq_messages[message_id] IN
    /\ nextId \in Ids
    /\ objs' = [objs EXCEPT ![o].status = "PENDING", ![o].retry_count = 0,
                            ![o].error_message = None]
    /\ dlq_messages' = dlq_messages
    /\ processing_messages' = Put(processing_messages, message_id, o)
    /\ wire' = NcPublish(wire, subject, Envelope(nextId, objs[o].data, None))
    /\ nextId' = nextId + 1
    /\ last' = Op("republish_dlq_message", message_id, subject, "returned")

\* republish_dlq_message with an id that is in the dead-letter table.
RepublishFound(message_id, subject) ==
    LET o == dlq_messages[message_id] IN
    /\ nextId \in Ids
    /\ objs' = [objs EXCEPT ![o].status = "PENDING", ![o].retry_count = 0,
                            ![o].error_message = None]
    /\ dlq_messages' = Del(dlq_messages, message_id)
    /\ processing_messages' = Put(processing_messages, message_id, o)
    /\ wire' = NcPublish(wire, subject, Envelope(nextId, objs[o].data, None))
    /\ nextId' = nextId + 1
    /\ last' = Op("republish_dlq_message", message_id, subject, "returned")

\* republish_dlq_message(message_id, subject)
RepublishDlqMessage(message_id, subject) ==
    /\ IF message_id \notin DOMAIN dlq_messages
       THEN RepublishNotFound(message_id, subject)
       ELSE RepublishFound(message_id, subject)
    /\ UNCHANGED <<scalerVars, serviceVars, replaying>>
    /\ UNCHANGED <<max_retries, timers, cb, now, malformedSent, directCalls,
                   invoked, failed>>

\* time passes
Tick ==
    /\ now < MaxTime
    /\ now' = now + 1
    /\ last' = Op("tick", 0, None, "returned")
    /\ UNCHANGED <<scalerVars, serviceVars, replaying>>
    /\ UNCHANGED <<max_retries, objs, processing_messages, dlq_messages, wire,
                   timers, cb, nextId, malformedSent, directCalls, invoked,
                   failed>>

Next ==
    \/ \E s \in Subjects, d \in {Payload(nextId)}, r \in {None, ReplySubject} :
          PublishMessage(s, d, r)
    \/ \E e \in MalformedMessages : SendMalformed(e)
    \/ \E e \in BagToSet(wire) : MessageHandler(e)
    \/ HandlerReturns
    \/ HandlerRaises
    \/ \E t \in BagToSet(timers) : RetryMessage(t)
    \/ \E i \in 1 .. nextId, s \in Subjects : RepublishDlqMessage(i, s)
    \/ Tick

Spec == Init /\ [][Next]_vars

\* A redelivered retry envelope whose failure is reported on the record the
\* in-flight table already tracks for its id: _handle_message_error is called
\* on that record, as a consumer that carries the retry count across
\* redeliveries (or a test of the error path) calls it.
ErrorPathCall(e) ==
    /\ directCalls < MaxDirect
    /\ cb = NoCb
    /\ BagIn(e, wire)
    /\ e.subject = SubscribedSubject
    /\ Decodable(e)
    /\ "retry_count" \in DOMAIN e.body
    /\ e.body.id \in DOMAIN processing_messages
    /\ LET o == processing_messages[e.body.id] IN
       /\ HandleMessageError(o, HandlerError, e.subject,
                             wire (-) SetToBag({e}))
       /\ failed' = Bump(failed, objs[o].id)
       /\ last' = Op("_handle_message_error", objs[o].id, e.subject,
                     ErrorPathOutcome(o, HandlerError))
    /\ directCalls' = directCalls + 1
    /\ UNCHANGED <<scalerVars, serviceVars, replaying>>
    /\ UNCHANGED <<max_retries, cb, now, nextId, malformedSent, invoked>>

\* The error path and the replay of dead-lettered records: messages are
\* published to the subscribed subject, handled, retried, and a redelivery's
\* failure may be reported on the tracked record.
NextErrorPath ==
    \/ \E r \in {None, ReplySubject} :
          PublishMessage(SubscribedSubject, Payload(nextId), r)
    \/ \E e \in BagToSet(wire) : MessageHandler(e)
    \/ HandlerReturns
    \/ HandlerRaises
    \/ \E t \in BagToSet(timers) : RetryMessage(t)
    \/ \E e \in BagToSet(wire) : ErrorPathCall(e)
    \/ \E i \in 1 .. nextId, s \in Subjects : RepublishDlqMessage(i, s)

SpecErrorPath == Init /\ [][NextErrorPath]_vars

\* Delays are counted in ticks of 1 / (10 * JitterSteps) seconds, so that
\* base_delay * jitter_factor * (j / JitterSteps) is the integer base_delay * j.
TicksPerSecond == 10 * JitterSteps

\* max(0.1, ...): 0.1 seconds in ticks.
DelayFloor == TicksPerSecond \div 10

\* _calculate_retry_delay(retry_count) when random.uniform(-1, 1) draws
\* j / JitterSteps: the delay in ticks.
CalculateRetryDelayValue(retry_count, j) ==
    LET base_delay == BaseDelay(retry_count)
        jitter     == base_delay * j
        d          == base_delay * TicksPerSecond + jitter
    IN IF d < DelayFloor THEN DelayFloor ELSE d

\* A call of _calculate_retry_delay(retry_count).
CalculateRetryDelay(retry_count, j) ==
    /\ last' = [op |-> "_calculate_retry_delay", id |-> 0, subject |-> None,
                outcome |-> "returned",
                result |-> [retry_count |-> retry_count, draw |-> j,
                            base_delay |-> BaseDelay(retry_count),
                            delay |-> CalculateRetryDelayValue(retry_count, j)]]
    /\ UNCHANGED <<scalerVars, serviceVars, replaying>>
    /\ UNCHANGED <<max_retries, objs, processing_messages, dlq_messages, wire,
                   timers, cb, now, nextId, malformedSent, directCalls,
                   invoked, failed>>

\* The backoff policy on its own: any retry attempt, any jitter draw.
NextBackoff ==
    \E n \in 1 .. MaxAttempt, j \in (-JitterSteps) .. JitterSteps :
        CalculateRetryDelay(n, j)

SpecBackoff == Init /\ [][NextBackoff]_vars

\* ------------------------------------------------------------ AutoScaler
\* Faulty variant of QueueStats: both counts are taken from the dead-letter
\* table.
QueueStats_BothFromDlq ==
    [processing_messages |-> Cardinality(DOMAIN dlq_messages),
     dlq_messages |-> Cardinality(DOMAIN dlq_messages),
     service |-> ServiceName,
     connected |-> connected]

\* get_queue_stats()
QueueStats ==
    [processing_messages |-> Cardinality(DOMAIN processing_messages),
     dlq_messages |-> Cardinality(DOMAIN dlq_messages),
     service |-> ServiceName,
     connected |-> connected]

\* A call of get_queue_stats().
GetQueueStats ==
    /\ last' = [op |-> "get_queue_stats", id |-> 0, subject |-> None,
                outcome |-> "returned", result |-> QueueStats]
    /\ UNCHANGED <<scalerVars, serviceVars, replaying>>
    /\ UNCHANGED <<max_retries, objs, processing_messages, dlq_messages, wire,
                   timers, cb, now, nextId, malformedSent, directCalls,
                   invoked, failed>>

\* Faulty variant of InCooldown: the comparison is inverted.
InCooldown_Inverted == now - last_scale_time > scaling_cooldown

\* `time.time() - self.last_scale_time < self.scaling_cooldown`
InCooldown == now - last_scale_time < scaling_cooldown

\* Faulty variant of ScaleUpStep: jumps to the largest pool at once.
ScaleUpStep_Jump ==
    IF current_workers < max_workers
    THEN /\ current_workers' = max_workers
         /\ last_scale_time' = now
    ELSE UNCHANGED <<current_workers, last_scale_time>>

\* The body of scale_up().
ScaleUpStep ==
    IF current_workers < max_workers
    THEN /\ current_workers' = current_workers + 1
         /\ last_scale_time' = now
    ELSE UNCHANGED <<current_workers, last_scale_time>>

\* Faulty variant of ScaleDownStep: the lower bound is not looked at.
ScaleDownStep_Unguarded ==
    /\ current_workers' = current_workers - 1
    /\ last_scale_time' = now

\* Faulty variant of ScaleDownStep: last_scale_time is assigned outside the
\* `if`, also when the pool is at min_workers.
ScaleDownStep_StampsAtBound ==
    /\ current_workers' = IF current_workers > min_workers
                          THEN current_workers - 1 ELSE current_workers
    /\ last_scale_time' = now

\* The body of scale_down().
ScaleDownStep ==
    IF current_workers > min_workers
    THEN /\ current_workers' = current_workers - 1
         /\ last_scale_time' = now
    ELSE UNCHANGED <<current_workers, last_scale_time>>

\* A direct call of scale_up().
ScaleUp ==
    /\ ScaleUpStep
    /\ last' = Op("scale_up", 0, None, "returned")
    /\ UNCHANGED <<min_workers, max_workers, serviceVars, replaying>>
    /\ UNCHANGED <<max_retries, objs, processing_messages, dlq_messages, wire,
                   timers, cb, now, nextId, malformedSent, directCalls,
                   invoked, failed>>

\* A direct call of scale_down().
ScaleDown ==
    /\ ScaleDownStep
    /\ last' = Op("scale_down", 0, None, "returned")
    /\ UNCHANGED <<min_workers, max_workers, serviceVars, replaying>>
    /\ UNCHANGED <<max_retries, objs, processing_messages, dlq_messages, wire,
                   timers, cb, now, nextId, malformedSent, directCalls,
                   invoked, failed>>

\* Faulty variant of ScalingBranch: the backlog is compared with >= in the
\* scale-up test.
ScalingBranch_UpAtTwice ==
    IF InCooldown THEN "cooldown"
    ELSE LET processing_count == QueueStats.processing_messages IN
         IF /\ processing_count >= current_workers * 2
            /\ current_workers < max_workers
         THEN "scale_up"
         ELSE IF /\ processing_count < current_workers \div 2
                 /\ current_workers > min_workers
              THEN "scale_down"
              ELSE "none"

\* Faulty variant of ScalingBranch: the scale-down test divides with `/`
\* (processing_count < current_workers / 2) instead of `//`.
ScalingBranch_TrueDivision ==
    IF InCooldown THEN "cooldown"
    ELSE LET processing_count == QueueStats.processing_messages IN
         IF /\ processing_count > current_workers * 2
            /\ current_workers < max_workers
         THEN "scale_up"
         ELSE IF /\ 2 * processing_count < current_workers
                 /\ current_workers > min_workers
              THEN "scale_down"
              ELSE "none"

\* The branch check_scaling_needs() takes.
ScalingBranch ==
    IF InCooldown THEN "cooldown"
    ELSE LET processing_count == QueueStats.processing_messages IN
         IF /\ processing_count > current_workers * 2
            /\ current_workers < max_workers
         THEN "scale_up"
         ELSE IF /\ processing_count < current_workers \div 2
                 /\ current_workers > min_workers
              THEN "scale_down"
              ELSE "none"

\* check_scaling_needs(): no await of it suspends, so it is one step.
CheckScalingNeeds ==
    /\ IF ScalingBranch = "scale_up" THEN ScaleUpStep
       ELSE IF ScalingBranch = "scale_down" THEN ScaleDownStep
       ELSE UNCHANGED <<current_workers, last_scale_time>>
    /\ last' = [op |-> "check_scaling_needs", id |-> 0, subject |-> None,
                outcome |-> "returned", result |-> ScalingBranch]
    /\ UNCHANGED <<min_workers, max_workers, serviceVars, replaying>>
    /\ UNCHANGED <<max_retries, objs, processing_messages, dlq_messages, wire,
                   timers, cb, now, nextId, malformedSent, directCalls,
                   invoked, failed>>

\* The clock moves on by a cooldown period, or by a second less.
Advance(dt) ==
    /\ now + dt <= StartTime + MaxCooldowns * scaling_cooldown
    /\ now' = now + dt
    /\ last' = Op("tick", 0, None, "returned")
    /\ UNCHANGED <<scalerVars, serviceVars, replaying>>
    /\ UNCHANGED <<max_retries, objs, processing_messages, dlq_messages, wire,
                   timers, cb, nextId, malformedSent, directCalls, invoked,
                   failed>>

\* The backlog the scaler may find: records of messages of other publishers
\* that the callback has handled to completion (they stay in the in-flight
\* table), with ids that publish_message of this manager does not generate.
Backlogs == 0 .. MaxObjs
BacklogRecord(o) ==
    [NewQueueMessage(MaxIds + o, Payload(MaxIds + o), "COMPLETED", StartTime)
        EXCEPT !.processed_at = StartTime]

\* A running service: a scaler built with any bounds, a backlog of handled
\* messages, the clock at StartTime.
InitScaler ==
    /\ \E mn \in 1 .. MaxWorkers, mx \in 1 .. MaxWorkers : AutoScalerInit(mn, mx)
    /\ ServiceRunning
    /\ max_retries = DefaultMaxRetries
    /\ \E k \in Backlogs :
          /\ objs = [o \in 1 .. k |-> BacklogRecord(o)]
          /\ processing_messages = [i \in (MaxIds + 1) .. (MaxIds + k)
                                       |-> i - MaxIds]
          /\ invoked = [i \in Ids |-> IF i \in (MaxIds + 1) .. (MaxIds + k)
                                       THEN 1 ELSE 0]
    /\ dlq_messages = <<>>
    /\ wire = EmptyBag
    /\ timers = EmptyBag
    /\ replaying = EmptyBag
    /\ cb = NoCb
    /\ now = StartTime
    /\ nextId = 1
    /\ malformedSent = 0
    /\ directCalls = 0
    /\ failed = [i \in Ids |-> 0]
    /\ last = Op("__init__", 0, None, "returned")

\* The scaler beside the queue: the scaler is polled and its steps are
\* called while the clock runs and messages are published.
NextScaler ==
    \/ \E r \in {None, ReplySubject} :
          PublishMessage(SubscribedSubject, Payload(nextId), r)
    \/ GetQueueStats
    \/ CheckScalingNeeds
    \/ ScaleUp
    \/ ScaleDown
    \/ \E dt \in {scaling_cooldown - 1, scaling_cooldown} : Advance(dt)

SpecScaler == InitScaler /\ [][NextScaler]_vars

\* -------------------------------------------- GPUCacheWarmer and startup
\* GPUCacheWarmer(model_path): is_warmed = False, no call made yet.
GPUCacheWarmerInit ==
    /\ is_warmed = FALSE
    /\ warm_pc = [c \in WarmCalls |-> "idle"]

\* FrameGeneratorService.__init__: everything is built and the task of
\* _initialize_services is created; nothing of it has run yet.
InitStartup ==
    /\ AutoScalerInit(ServiceMinWorkers, ServiceMaxWorkers)
    /\ GPUCacheWarmerInit
    /\ init_pc = "connect"
    /\ connected = FALSE
    /\ subscription = None
    /\ QueueManagerInit

\* warm_cache() starts: `if self.is_warmed: return`, else the call is
\* suspended in the load.
WarmCacheEntered(c) == IF is_warmed THEN "skipped" ELSE "loading"

\* Where _initialize_services stands after its warm_cache() call c has
\* reached stage pc; another caller's call does not move it.
AfterWarmCache(c, pc) ==
    IF c # StartupCall THEN init_pc
    ELSE IF pc = "loading" THEN "warming"
    ELSE IF pc = "raised" THEN "failed"
    ELSE "subscribe"

\* Faulty variant of WarmCache: the call loads whether or not the cache is
\* warm.
WarmCache_AlwaysLoads(c) ==
    /\ warm_pc[c] = "idle"
    /\ c = StartupCall => init_pc = "warm"
    /\ warm_pc' = [warm_pc EXCEPT ![c] = "loading"]
    /\ init_pc' = AfterWarmCache(c, "loading")
    /\ last' = Op("warm_cache", c, None, "loading")
    /\ UNCHANGED <<scalerVars, is_warmed, connected, subscription, replaying>>
    /\ UNCHANGED <<max_retries, objs, processing_messages, dlq_messages, wire,
                   timers, cb, now, nextId, malformedSent, directCalls,
                   invoked, failed>>

\* Faulty variant of WarmCache: `self.is_warmed = False` is assigned at the
\* start of every call, so every call loads.
WarmCache_ResetsFlag(c) ==
    /\ warm_pc[c] = "idle"
    /\ c = StartupCall => init_pc = "warm"
    /\ warm_pc' = [warm_pc EXCEPT ![c] = "loading"]
    /\ is_warmed' = FALSE
    /\ init_pc' = AfterWarmCache(c, "loading")
    /\ last' = Op("warm_cache", c, None, "loading")
    /\ UNCHANGED <<scalerVars, connected, subscription, replaying>>
    /\ UNCHANGED <<max_retries, objs, processing_messages, dlq_messages, wire,
                   timers, cb, now, nextId, malformedSent, directCalls,
                   invoked, failed>>

\* warm_cache(), call c, up to its first suspension or its early return.
WarmCache(c) ==
    /\ warm_pc[c] = "idle"
    /\ c = StartupCall => init_pc = "warm"
    /\ warm_pc' = [warm_pc EXCEPT ![c] = WarmCacheEntered(c)]
    /\ init_pc' = AfterWarmCache(c, WarmCacheEntered(c))
    /\ last' = Op("warm_cache", c, None,
                  IF is_warmed THEN "returned" ELSE "loading")
    /\ UNCHANGED <<scalerVars, is_warmed, connected, subscription, replaying>>
    /\ UNCHANGED <<max_retries, objs, processing_messages, dlq_messages, wire,
                   timers, cb, now, nextId, malformedSent, directCalls,
                   invoked, failed>>

\* The load and the warm-up inferences of call c are done:
\* `self.is_warmed = True`.
WarmCacheLoaded(c) ==
    /\ warm_pc[c] = "loading"
    /\ is_warmed' = TRUE
    /\ warm_pc' = [warm_pc EXCEPT ![c] = "warmed"]
    /\ init_pc' = AfterWarmCache(c, "warmed")
    /\ last' = Op("warm_cache", c, None, "returned")
    /\ UNCHANGED <<scalerVars, connected, subscription, replaying>>
    /\ UNCHANGED <<max_retries, objs, processing_messages, dlq_messages, wire,
                   timers, cb, now, nextId, malformedSent, directCalls,
                   invoked, failed>>

\* Faulty variant of WarmCacheFails: the flag is set in a `finally`.
WarmCacheFails_MarksWarmed(c) ==
    /\ warm_pc[c] = "loading"
    /\ is_warmed' = TRUE
    /\ warm_pc' = [warm_pc EXCEPT ![c] = "raised"]
    /\ init_pc' = AfterWarmCache(c, "raised")
    /\ last' = Op("warm_cache", c, None, "Exception")
    /\ UNCHANGED <<scalerVars, connected, subscription, replaying>>
    /\ UNCHANGED <<max_retries, objs, processing_messages, dlq_messages, wire,
                   timers, cb, now, nextId, malformedSent, directCalls,
                   invoked, failed>>

\* The load of call c raises: the except clause logs and re-raises.  In
\* _initialize_services the exception ends the startup.
WarmCacheFails(c) ==
    /\ warm_pc[c] = "loading"
    /\ warm_pc' = [warm_pc EXCEPT ![c] = "raised"]
    /\ init_pc' = AfterWarmCache(c, "raised")
    /\ last' = Op("warm_cache", c, None, "Exception")
    /\ UNCHANGED <<scalerVars, is_warmed, connected, subscription, replaying>>
    /\ UNCHANGED <<max_retries, objs, processing_messages, dlq_messages, wire,
                   timers, cb, now, nextId, malformedSent, directCalls,
                   invoked, failed>>

\* check_cache_status()
CheckCacheStatus ==
    /\ last' = [op |-> "check_cache_status", id |-> 0, subject |-> None,
                outcome |-> "returned", result |-> is_warmed]
    /\ UNCHANGED <<scalerVars, serviceVars, replaying>>
    /\ UNCHANGED <<max_retries, objs, processing_messages, dlq_messages, wire,
                   timers, cb, now, nextId, malformedSent, directCalls,
                   invoked, failed>>

\* _initialize_services: `await self.queue_manager.connect()` succeeds or
\* raises; an exception ends the startup in its except clause.
Connect(ok) ==
    /\ init_pc = "connect"
    /\ connected' = ok
    /\ init_pc' = IF ok THEN "warm" ELSE "failed"
    /\ last' = Op("connect", 0, None, IF ok THEN "returned" ELSE "Exception")
    /\ UNCHANGED <<scalerVars, is_warmed, warm_pc, subscription, replaying>>
    /\ UNCHANGED <<max_retries, objs, processing_messages, dlq_messages, wire,
                   timers, cb, now, nextId, malformedSent, directCalls,
                   invoked, failed>>

\* Faulty variant of SubscribeToQueue: the subscription is installed right
\* after connect(), before warm_cache() is awaited.
SubscribeToQueue_BeforeWarm ==
    /\ init_pc = "warm"
    /\ subscription' = SubscribedSubject
    /\ init_pc' = "running"
    /\ last' = Op("subscribe_to_queue", 0, SubscribedSubject, "returned")
    /\ UNCHANGED <<scalerVars, is_warmed, warm_pc, connected, replaying>>
    /\ UNCHANGED <<max_retries, objs, processing_messages, dlq_messages, wire,
                   timers, cb, now, nextId, malformedSent, directCalls,
                   invoked, failed>>

\* _initialize_services: subscribe_to_queue("frame.generation", ...) after
\* connect() and warm_cache() have returned.
SubscribeToQueue ==
    /\ init_pc = "subscribe"
    /\ subscription' = SubscribedSubject
    /\ init_pc' = "running"
    /\ last' = Op("subscribe_to_queue", 0, SubscribedSubject, "returned")
    /\ UNCHANGED <<scalerVars, is_warmed, warm_pc, connected, replaying>>
    /\ UNCHANGED <<max_retries, objs, processing_messages, dlq_messages, wire,
                   timers, cb, now, nextId, malformedSent, directCalls,
                   invoked, failed>>

\* No warm_cache() call is suspended in its load.
NoLoadInProgress == \A c \in WarmCalls : warm_pc[c] # "loading"

\* The queue beside the startup: a connected manager publishes, and what
\* the subscription receives is handled.
QueueBesideStartup ==
    \/ connected /\ PublishMessage(SubscribedSubject, Payload(nextId), None)
    \/ \E e \in BagToSet(wire) : MessageHandler(e)
    \/ HandlerReturns

\* The startup of the service, with warm_cache() calls of other callers
\* that may overlap.
NextStartup ==
    \/ \E ok \in BOOLEAN : Connect(ok)
    \/ \E c \in WarmCalls : WarmCache(c)
    \/ \E c \in WarmCalls : WarmCacheLoaded(c)
    \/ \E c \in WarmCalls : WarmCacheFails(c)
    \/ CheckCacheStatus
    \/ SubscribeToQueue
    \/ QueueBesideStartup

SpecStartup == InitStartup /\ [][NextStartup]_vars

\* The same, with warm_cache() calls made one after the other: a call
\* starts only when no other is suspended in its load.
NextStartupSequential ==
    \/ \E ok \in BOOLEAN : Connect(ok)
    \/ \E c \in WarmCalls : NoLoadInProgress /\ WarmCache(c)
    \/ \E c \in WarmCalls : WarmCacheLoaded(c)
    \/ \E c \in WarmCalls : WarmCacheFails(c)
    \/ CheckCacheStatus
    \/ SubscribeToQueue
    \/ QueueBesideStartup

SpecStartupSequential == InitStartup /\ [][NextStartupSequential]_vars

\* Faulty variant of ReplayBegins: the call is suspended in the publish
\* between the lookup and the move (`del` and the in-flight entry come after
\* `await self.publish_message`).
ReplayBegins_MovesAfterPublish(message_id, subject) ==
    /\ IF message_id \notin DOMAIN dlq_messages
       THEN /\ last' = Op("republish_dlq_message", message_id, subject,
                          "ValueError")
            /\ UNCHANGED <<objs, nextId, replaying>>
       ELSE LET o == dlq_messages[message_id] IN
            /\ nextId \in Ids
            /\ objs' = [objs EXCEPT ![o].status = "PENDING",
                                    ![o].retry_count = 0,
                                    ![o].error_message = None]
            /\ replaying' = replaying (+) SetToBag({
                    [for |-> message_id, subject |-> subject,
                     body |-> Envelope(nextId, objs[o].data, None)]})
            /\ nextId' = nextId + 1
            /\ last' = Op("republish_dlq_message", message_id, subject,
                          "awaiting")
    /\ UNCHANGED <<processing_messages, dlq_messages>>
    /\ UNCHANGED <<scalerVars, serviceVars>>
    /\ UNCHANGED <<max_retries, wire, timers, cb, now, malformedSent,
                   directCalls, invoked, failed>>

\* republish_dlq_message(message_id, subject) up to the `await
\* self.nc.publish` inside publish_message: the lookup, the reset, the move
\* and the envelope publish_message builds have no await between them.
ReplayBegins(message_id, subject) ==
    /\ IF message_id \notin DOMAIN dlq_messages
       THEN /\ last' = Op("republish_dlq_message", message_id, subject,
                          "ValueError")
            /\ UNCHANGED <<objs, processing_messages, dlq_messages, nextId,
                           replaying>>
       ELSE LET o == dlq_messages[message_id] IN
            /\ nextId \in Ids
            /\ objs' = [objs EXCEPT ![o].status = "PENDING",
                                    ![o].retry_count = 0,
                                    ![o].error_message = None]
            /\ dlq_messages' = Del(dlq_messages, message_id)
            /\ processing_messages' = Put(processing_messages, message_id, o)
            /\ replaying' = replaying (+) SetToBag({
                    [for |-> message_id, subject |-> subject,
                     body |-> Envelope(nextId, objs[o].data, None)]})
            /\ nextId' = nextId + 1
            /\ last' = Op("republish_dlq_message", message_id, subject,
                          "awaiting")
    /\ UNCHANGED <<scalerVars, serviceVars>>
    /\ UNCHANGED <<max_retries, wire, timers, cb, now, malformedSent,
                   directCalls, invoked, failed>>

\* The publish a replay was suspended in goes out and the call returns.
ReplayPublishes(r) ==
    /\ BagIn(r, replaying)
    /\ replaying' = replaying (-) SetToBag({r})
    /\ wire' = NcPublish(wire, r.subject, r.body)
    /\ last' = Op("republish_dlq_message", r.for, r.subject, "returned")
    /\ UNCHANGED <<scalerVars, serviceVars>>
    /\ UNCHANGED <<max_retries, objs, processing_messages, dlq_messages,
                   timers, cb, now, nextId, malformedSent, directCalls,
                   invoked, failed>>

\* The error path with replays that other tasks interleave with: a replay
\* call may be suspended in its publish while other calls run.
NextReplayInterleaved ==
    \/ \E r \in {None, ReplySubject} :
          PublishMessage(SubscribedSubject, Payload(nextId), r)
    \/ \E e \in BagToSet(wire) : MessageHandler(e)
    \/ HandlerReturns
    \/ HandlerRaises
    \/ \E t \in BagToSet(timers) : RetryMessage(t)
    \/ \E e \in BagToSet(wire) : ErrorPathCall(e)
    \/ \E i \in 1 .. nextId, s \in Subjects : ReplayBegins(i, s)
    \/ \E r \in BagToSet(replaying) : ReplayPublishes(r)

SpecReplayInterleaved == Init /\ [][NextReplayInterleaved]_vars

\* The handler returned and the record was marked completed, but
\* `await self.nc.publish(data["reply_to"], ...)` raises (the connection is
\* closed, or the reply exceeds the payload limit): the exception is raised
\* inside the try, so the except clause calls _handle_message_error on the
\* record as lines 116-117 left it.
ReplyError == "reply publish failed"

ReplyPublishFails ==
    /\ cb # NoCb
    /\ cb.reply_to # None
    /\ LET o == cb.obj
           c == [objs[o] EXCEPT !.status = "COMPLETED", !.processed_at = now]
           m == [c EXCEPT !.retry_count = @ + 1, !.error_message = ReplyError]
       IN /\ timers' = ErrorPathTimers(o, cb.subject, m)
          /\ IF WithinBudget(m)
             THEN /\ objs' = [objs EXCEPT ![o] = [m EXCEPT !.status = "RETRY"]]
                  /\ UNCHANGED <<processing_messages, dlq_messages>>
             ELSE LET d == [m EXCEPT !.status = "DEAD_LETTER"]
                      t == DeadLetterTables(d, o)
                  IN /\ objs' = [objs EXCEPT ![o] = d]
                     /\ processing_messages' = t.processing
                     /\ dlq_messages' = t.dlq
          /\ failed' = Bump(failed, objs[o].id)
          /\ last' = Op("handler_returned", objs[o].id, cb.subject,
                        "reply failed")
    /\ cb' = NoCb
    /\ UNCHANGED <<scalerVars, serviceVars, replaying>>
    /\ UNCHANGED <<max_retries, wire, now, nextId, malformedSent, directCalls,
                   invoked>>

\* The handling of one message that asks for a completion reply, where the
\* publish of the reply may fail.
NextReplyFails ==
    \/ PublishMessage(SubscribedSubject, Payload(nextId), ReplySubject)
    \/ \E e \in BagToSet(wire) : MessageHandler(e)
    \/ HandlerReturns
    \/ ReplyPublishFails
    \/ HandlerRaises
    \/ \E t \in BagToSet(timers) : RetryMessage(t)
    \/ Tick

SpecReplyFails == Init /\ [][NextReplyFails]_vars

\* k messages that other services have published to the subscribed subject,
\* with ids that publish_message of this manager does not generate.
PublishedLoad(k) ==
    SetToBag({[subject |-> SubscribedSubject, json |-> TRUE,
               body |-> [id |-> MaxIds + j, data |-> Payload(MaxIds + j),
                         reply_to |-> None, created_at |-> StartTime,
                         service |-> ServiceName]] : j \in 1 .. k})

\* The running service with a load waiting on its subscription, the clock at
\* StartTime.
InitMonitored ==
    /\ AutoScalerInit(ServiceMinWorkers, ServiceMaxWorkers)
    /\ ServiceRunning
    /\ max_retries = DefaultMaxRetries
    /\ objs = <<>>
    /\ processing_messages = <<>>
    /\ dlq_messages = <<>>
    /\ \E k \in Backlogs : wire = PublishedLoad(k)
    /\ timers = EmptyBag
    /\ replaying = EmptyBag
    /\ cb = NoCb
    /\ now = StartTime
    /\ nextId = 1
    /\ malformedSent = 0
    /\ directCalls = 0
    /\ invoked = [i \in Ids |-> 0]
    /\ failed = [i \in Ids |-> 0]
    /\ last = Op("__init__", 0, None, "returned")

\* The service as it runs: the subscription handles the load, every handler
\* succeeds, and _monitor_scaling polls check_scaling_needs while the clock
\* runs.  The event loop runs every task that can run.
DeliverNext == \E e \in BagToSet(wire) : MessageHandler(e)

NextMonitored ==
    \/ DeliverNext
    \/ HandlerReturns
    \/ CheckScalingNeeds
    \/ Advance(scaling_cooldown)

SpecMonitored ==
    /\ InitMonitored
    /\ [][NextMonitored]_vars
    /\ WF_vars(DeliverNext)
    /\ WF_vars(HandlerReturns)
    /\ WF_vars(CheckScalingNeeds)
    /\ WF_vars(Advance(scaling_cooldown))

\* Every message is published with a reply target: the handling of one
\* message that asks for a completion reply, through its retries.
NextReplyRequested ==
    \/ PublishMessage(SubscribedSubject, Payload(nextId), ReplySubject)
    \/ \E e \in BagToSet(wire) : MessageHandler(e)
    \/ HandlerReturns
    \/ HandlerRaises
    \/ \E t \in BagToSet(timers) : RetryMessage(t)
    \/ Tick

SpecReplyRequested == Init /\ [][NextReplyRequested]_vars

\* ===================================================================
\* Properties
\* ===================================================================
\* The record the tables track for id i (the in-flight table first).
Tracked(i) ==
    IF i \in DOMAIN processing_messages THEN processing_messages[i]
    ELSE IF i \in DOMAIN dlq_messages THEN dlq_messages[i]
    ELSE NoObj

\* Pending retry tasks of records with id i.
TimersFor(i, ts) ==
    BagCardinality([t \in {x \in DOMAIN ts : objs[x.obj].id = i} |-> ts[t]])

\* Envelopes with id i waiting for delivery on the subscribed subject.
EnvelopesFor(i, w) ==
    BagCardinality([e \in {x \in DOMAIN w : /\ x.subject = SubscribedSubject
                                            /\ Decodable(x)
                                            /\ x.body.id = i} |-> w[e]])

\* C1: with maxRetries = 3, a message whose handler fails on every delivery
\* is, once it has failed 4 times, a record of the dead-letter table with
\* status DeadLetter and retryCount = 4, and is not in the in-flight table.
C1_DeadLetteredAfterFourthFailure ==
    \A i \in Ids :
        (max_retries = 3 /\ failed[i] >= 4 /\ invoked[i] = failed[i])
        => /\ i \in DOMAIN dlq_messages
           /\ objs[dlq_messages[i]].status = "DEAD_LETTER"
           /\ objs[dlq_messages[i]].retry_count = 4
           /\ i \notin DOMAIN processing_messages

\* C2: for a manager with the default maxRetries, the handler of one message
\* is invoked at most maxRetries + 1 times, and once it has failed
\* maxRetries + 1 times no further retry of that message is pending.
C2_RetriesStopAtBudget ==
    max_retries = DefaultMaxRetries =>
        \A i \in Ids :
            /\ invoked[i] <= max_retries + 1
            /\ failed[i] >= max_retries + 1
               => TimersFor(i, timers) + EnvelopesFor(i, wire) = 0

\* C3: no message id is a key of both the in-flight table and the
\* dead-letter table.
C3_TablesDisjoint ==
    (DOMAIN processing_messages) \cap (DOMAIN dlq_messages) = {}

\* C4: the retryCount of the record tracked for an id never decreases from
\* one state to the next, except in a republish_dlq_message step for that id.
C4_RetryCountNeverDecreases ==
    [][\A i \in Ids :
          (Tracked(i) # NoObj /\ Tracked(i)' # NoObj)
          => \/ objs'[Tracked(i)'].retry_count >= objs[Tracked(i)].retry_count
             \/ /\ last'.op = "republish_dlq_message"
                /\ last'.id = i]_vars

\* C5: a record with status Completed whose handler failed k <= maxRetries
\* times before it succeeded has retryCount = k.
C5_CompletedKeepsRetryCount ==
    \A i \in DOMAIN processing_messages :
        LET m == objs[processing_messages[i]] IN
        (m.status = "COMPLETED" /\ i \in Ids /\ failed[i] <= max_retries)
        => m.retry_count = failed[i]

\* C6: a record is dead-lettered exactly when its retryCount exceeds the
\* maxRetries the manager was constructed with: on failure maxRetries + 1,
\* and not before.
C6_BudgetIsManagersMaxRetries ==
    \A o \in Refs :
        /\ objs[o].status = "DEAD_LETTER"
           => objs[o].retry_count >= max_retries + 1
        /\ objs[o].retry_count >= max_retries + 1
           => objs[o].status = "DEAD_LETTER"

\* C7: a republish_dlq_message step for an id that is not in the dead-letter
\* table ends with the not-found error, publishes nothing and leaves the
\* in-flight table, the dead-letter table and every record as they were.
C7_ReplayUnknownIdChangesNothing ==
    [][(last'.op = "republish_dlq_message"
        /\ last'.id \notin DOMAIN dlq_messages)
       => /\ last'.outcome = "ValueError"
          /\ UNCHANGED <<objs, processing_messages, dlq_messages, wire,
                         timers, nextId>>]_vars

\* C7 witness: a replay of an unknown id was refused while another record
\* sits in the dead-letter table.
C7_Witness ==
    /\ last.op = "republish_dlq_message"
    /\ last.outcome = "ValueError"
    /\ DOMAIN dlq_messages # {}

\* C8: a republish_dlq_message step for an id in the dead-letter table
\* removes the record from the dead-letter table, puts the same record in
\* the in-flight table with status Pending, retryCount 0 and no
\* errorMessage, and publishes exactly one envelope, carrying the record's
\* payload, to the given subject.
C8_ReplayMovesRecordAndRepublishes ==
    [][(last'.op = "republish_dlq_message"
        /\ last'.id \in DOMAIN dlq_messages)
       => LET i == last'.id
              o == dlq_messages[i]
          IN /\ last'.outcome = "returned"
             /\ i \notin DOMAIN dlq_messages'
             /\ i \in DOMAIN processing_messages'
             /\ processing_messages'[i] = o
             /\ objs'[o] = [objs[o] EXCEPT !.status = "PENDING",
                                           !.retry_count = 0,
                                           !.error_message = None]
             /\ \E e \in BagToSet(wire') :
                   /\ wire' = wire (+) SetToBag({e})
                   /\ e.subject = last'.subject
                   /\ e.json
                   /\ "data" \in DOMAIN e.body
                   /\ e.body.data = objs[o].data]_vars

\* C8 witness: a dead-lettered record (4 failures) has been replayed and is
\* pending in the in-flight table.
C8_Witness ==
    /\ last.op = "republish_dlq_message"
    /\ last.outcome = "returned"
    /\ last.id \in DOMAIN processing_messages
    /\ objs[processing_messages[last.id]].status = "PENDING"
    /\ failed[last.id] = DefaultMaxRetries + 1

\* C9: while an id is in the dead-letter table, no step schedules a retry
\* for it or invokes its handler; only a republish_dlq_message step for
\* that id takes it out of the dead-letter table.
C9_DeadLetterIsTerminalUntilReplay ==
    [][\A i \in Ids :
          i \in DOMAIN dlq_messages
          => \/ /\ last'.op = "republish_dlq_message"
                /\ last'.id = i
                /\ last'.outcome = "returned"
             \/ /\ i \in DOMAIN dlq_messages'
                /\ objs'[dlq_messages'[i]].status = "DEAD_LETTER"
                /\ invoked'[i] = invoked[i]
                /\ TimersFor(i, timers)' + EnvelopesFor(i, wire)'
                   <= TimersFor(i, timers) + EnvelopesFor(i, wire)]_vars

\* C9 witness: a record is dead-lettered and the system has taken a further
\* step that is not its replay.
C9_Witness ==
    \E i \in DOMAIN dlq_messages :
        /\ objs[dlq_messages[i]].status = "DEAD_LETTER"
        /\ last.op \notin {"_handle_message_error", "handler_raised"}

\* C10: a delivered wire message that does not decode is dropped: the
\* tables, the records and the retry tasks are unchanged, nothing is
\* published, and the callback returns without raising.
C10_MalformedIsDroppedQuietly ==
    [][\A e \in BagToSet(wire) :
          (/\ ~Decodable(e)
           /\ last'.op = "message_handler"
           /\ CopiesIn(e, wire') < CopiesIn(e, wire))
          => /\ wire' = wire (-) SetToBag({e})
             /\ UNCHANGED <<objs, processing_messages, dlq_messages, timers>>
             /\ last'.outcome = "returned"]_vars

\* C11: a failure raised by the handler never leaves the subscription
\* callback: whenever the error path has run, on the retry branch or on the
\* dead-letter branch, it has returned normally.
C11_HandlerFailureIsContained ==
    last.op \in {"handler_raised", "_handle_message_error"}
    => last.outcome = "returned"

\* C12: when the handler returns, the record becomes Completed; if the
\* delivered envelope carried a reply_to subject exactly one reply
\* {message_id, status "completed", result} is published to that subject,
\* and otherwise nothing is published.
C12_SuccessRepliesOnce ==
    [][last'.op = "handler_returned"
       => LET o == cb.obj IN
          /\ objs'[o].status = "COMPLETED"
          /\ IF cb.reply_to # None
             THEN wire' = wire (+) SetToBag({
                      [subject |-> cb.reply_to, json |-> TRUE,
                       body |-> [message_id |-> objs[o].id,
                                 status |-> "completed",
                                 result |-> HandlerResult]]})
             ELSE wire' = wire]_vars

\* C12 witness: a handler has returned for a delivery that asked for a
\* reply, and the reply for its id is on the reply subject.
C12_Witness ==
    /\ last.op = "handler_returned"
    /\ \E e \in BagToSet(wire) :
          /\ e.subject = ReplySubject
          /\ e.body.message_id = last.id

\* C13: a message published with a reply_to subject keeps it across
\* retries: whenever its handler returns, on the first delivery or on a
\* retry delivery, a completion reply for its id is published to the
\* reply subject.
C13_ReplyTargetSurvivesRetries ==
    [][last'.op = "handler_returned"
       => \E e \in BagToSet(wire') :
             /\ e.subject = ReplySubject
             /\ e.body.message_id = last'.id
             /\ CopiesIn(e, wire') = CopiesIn(e, wire) + 1]_vars

\* Entry n - 1 of the table (counted from 0) for attempt n, the last entry
\* beyond the table: what the backoff policy is documented to pick.
DocumentedBase(n) ==
    retry_delays[IF n > Len(retry_delays) THEN Len(retry_delays) ELSE n]

\* C14: the base delay chosen for retry attempt n >= 1 is entry n - 1 of
\* [1, 5, 15, 60, 300], and 300 for every n beyond the table length:
\* attempts 1,2,3,4,5,6 have bases 1,5,15,60,300,300.
C14_BaseIsEntryAttemptMinusOne ==
    last.op = "_calculate_retry_delay"
    => last.result.base_delay = DocumentedBase(last.result.retry_count)

\* C15: for every attempt in 1..5 and every jitter draw the delay lies in
\* [max(0.1, 0.9 * base), 1.1 * base], base being the table entry of that
\* attempt, and for every attempt the delay is at least 0.1.
C15_DelayWithinJitterBand ==
    last.op = "_calculate_retry_delay"
    => LET n    == last.result.retry_count
           d    == last.result.delay
           base == DocumentedBase(n) * TicksPerSecond
           lo   == IF 9 * base < 10 * DelayFloor
                   THEN 10 * DelayFloor ELSE 9 * base
       IN /\ d >= DelayFloor
          /\ n \in 1 .. 5 => (10 * d >= lo /\ 10 * d <= 11 * base)

\* C16: a publish_message step publishes exactly one envelope
\* {id, data, reply_to, created_at, service} to the subject and returns the
\* generated id; no handler runs in it, and the in-flight table, the
\* dead-letter table and the records are as before.
C16_PublishOnlyPublishes ==
    [][last'.op = "publish_message"
       => /\ last'.outcome = "returned"
          /\ \E e \in BagToSet(wire') :
                /\ wire' = wire (+) SetToBag({e})
                /\ e.subject = last'.subject
                /\ e.json
                /\ DOMAIN e.body
                   = {"id", "data", "reply_to", "created_at", "service"}
                /\ e.body.id = last'.id
          /\ UNCHANGED <<objs, processing_messages, dlq_messages, timers, cb,
                         invoked>>]_vars

\* C16 witness: a message with a reply target has been published while the
\* in-flight table holds records, and its envelope waits on the wire.
C16_Witness ==
    /\ last.op = "publish_message"
    /\ DOMAIN processing_messages # {}
    /\ \E e \in BagToSet(wire) :
          /\ e.body.id = last.id
          /\ e.body.reply_to = ReplySubject

\* C17: a get_queue_stats step changes nothing (tables, records, wire, retry
\* tasks, scaler state) and reports the number of records of the in-flight
\* table and of the dead-letter table at the moment of the call.
C17_StatsAreReadOnlyCounts ==
    [][last'.op = "get_queue_stats"
       => /\ UNCHANGED <<objs, processing_messages, dlq_messages, wire,
                         timers, cb, nextId, scalerVars>>
          /\ last'.result.processing_messages
             = Cardinality(DOMAIN processing_messages)
          /\ last'.result.dlq_messages
             = Cardinality(DOMAIN dlq_messages)]_vars

\* C17 witness: the stats were read with several records in flight and a
\* scaler that has scaled.
C17_Witness ==
    /\ last.op = "get_queue_stats"
    /\ last.result.processing_messages >= 2
    /\ current_workers > min_workers

\* C18 as stated: in every state min_workers <= current_workers
\* <= max_workers.
C18_WorkersWithinBounds ==
    /\ min_workers <= current_workers
    /\ current_workers <= max_workers

\* C18: for a scaler built with min_workers <= max_workers, in every state
\* min_workers <= current_workers <= max_workers.
C18_WorkersWithinOrderedBounds ==
    min_workers <= max_workers
    => /\ min_workers <= current_workers
       /\ current_workers <= max_workers

\* C18 witness: a scaler that has grown to max_workers was asked to scale
\* up once more, at a later time, and did not.
C18_Witness ==
    /\ min_workers < max_workers
    /\ current_workers = max_workers
    /\ last.op = "scale_up"
    /\ last_scale_time < now

\* C19: a check_scaling_needs step made fewer than scaling_cooldown seconds
\* after last_scale_time changes neither current_workers nor
\* last_scale_time; and every step that changes current_workers sets
\* last_scale_time to the time of the step, so that two changes made by
\* check_scaling_needs are at least scaling_cooldown apart.
C19_CooldownHoldsScaling ==
    [][/\ (last'.op = "check_scaling_needs"
           /\ now - last_scale_time < scaling_cooldown)
          => UNCHANGED <<current_workers, last_scale_time>>
       /\ current_workers' # current_workers
          => /\ last_scale_time' = now'
             /\ now' = now
       /\ now' >= now]_vars

\* C19 witness: a check made within the cooldown after a scaling step found
\* a backlog that asks for scaling, and changed nothing.
C19_Witness ==
    /\ last.op = "check_scaling_needs"
    /\ last.result = "cooldown"
    /\ last_scale_time >= StartTime
    /\ \/ /\ Cardinality(DOMAIN processing_messages) > current_workers * 2
          /\ current_workers < max_workers
       \/ /\ Cardinality(DOMAIN processing_messages)
                < current_workers \div 2
          /\ current_workers > min_workers

\* C20: a check_scaling_needs step changes current_workers by at most one.
C20_OneStepPerCheck ==
    [][last'.op = "check_scaling_needs"
       => current_workers' - current_workers \in {-1, 0, 1}]_vars

\* C20 witness: a check has scaled up by one although the backlog is at least
\* twice the new pool, with room left below max_workers.
C20_Witness ==
    /\ last.op = "check_scaling_needs"
    /\ last.result = "scale_up"
    /\ current_workers < max_workers
    /\ Cardinality(DOMAIN processing_messages) >= current_workers * 2

\* The scale-up test of the backlog, on the in-flight table itself.
BacklogAsksUp ==
    /\ Cardinality(DOMAIN processing_messages) > 2 * current_workers
    /\ current_workers < max_workers

\* The scale-down test of the backlog, on the in-flight table itself.
BacklogAsksDown ==
    /\ Cardinality(DOMAIN processing_messages) < current_workers \div 2
    /\ current_workers > min_workers

\* C21: a check_scaling_needs step made with the cooldown elapsed raises
\* current_workers, by exactly one, if and only if the in-flight count is
\* more than twice current_workers and current_workers < max_workers.
C21_ScaleUpIffBacklogOverTwice ==
    [][(last'.op = "check_scaling_needs"
        /\ now - last_scale_time >= scaling_cooldown)
       => /\ current_workers' > current_workers <=> BacklogAsksUp
          /\ current_workers' > current_workers
             => current_workers' = current_workers + 1]_vars

\* C21 witness: with min 1, a pool of 1 and 3 records in flight a check
\* has scaled up to 2.
C21_Witness ==
    /\ last.op = "check_scaling_needs"
    /\ last.result = "scale_up"
    /\ min_workers = 1
    /\ current_workers = 2
    /\ Cardinality(DOMAIN processing_messages) = 3

\* C22: a check_scaling_needs step made with the cooldown elapsed and the
\* scale-up test false lowers current_workers, by exactly one, if and only
\* if the in-flight count is below current_workers div 2 and
\* current_workers > min_workers; a pool of 1 is never scaled down.
C22_ScaleDownIffBacklogUnderHalf ==
    [][(last'.op = "check_scaling_needs"
        /\ now - last_scale_time >= scaling_cooldown
        /\ ~BacklogAsksUp)
       => /\ current_workers' < current_workers <=> BacklogAsksDown
          /\ current_workers' < current_workers
             => current_workers' = current_workers - 1
          /\ current_workers = 1 => current_workers' = 1]_vars

\* C22 witness: a check made after a cooldown has scaled a pool down that
\* stood above min_workers.
C22_Witness ==
    /\ last.op = "check_scaling_needs"
    /\ last.result = "scale_down"
    /\ current_workers >= min_workers
    /\ last_scale_time > StartTime

\* The warm_cache() calls that have started the load.
LoadsStarted ==
    Cardinality({c \in WarmCalls : warm_pc[c] \in {"loading", "warmed", "raised"}})

\* C23: with warm_cache() calls made one after the other and no load
\* failing, the load is performed once: a call made after a successful one
\* returns without loading.  check_cache_status() returns is_warmed, which
\* is false before the first successful call and true after it.
C23_SequentialCallsLoadOnce ==
    /\ (\A c \in WarmCalls : warm_pc[c] # "raised") => LoadsStarted <= 1
    /\ is_warmed <=> \E c \in WarmCalls : warm_pc[c] = "warmed"
    /\ \A c \in WarmCalls : warm_pc[c] = "skipped" => is_warmed
    /\ last.op = "check_cache_status" => last.result = is_warmed

\* C23 witness: one call has loaded, a later one has returned without
\* loading, no load failed, and check_cache_status() has returned true.
C23_Witness ==
    /\ LoadsStarted = 1
    /\ \E c, d \in WarmCalls : /\ warm_pc[c] = "warmed"
                                /\ warm_pc[d] = "skipped"
    /\ last.op = "check_cache_status"
    /\ last.result = TRUE

\* C24: is_warmed starts false, and once it is true no step sets it back
\* to false.
C24_WarmedIsWriteOnceTrue ==
    /\ ~is_warmed
    /\ [][is_warmed => is_warmed']_vars

\* C24 witness: the cache is warm and a call that overlapped the
\* successful one has failed since.
C24_Witness ==
    /\ is_warmed
    /\ last.op = "warm_cache"
    /\ last.outcome = "Exception"

\* C25: a warm_cache() call whose load fails ends with the exception at its
\* caller (the startup stops) and does not change is_warmed; a call that
\* starts while is_warmed is false starts the load, whatever failed before.
C25_FailedLoadLeavesCold ==
    [][/\ (last'.op = "warm_cache" /\ last'.outcome = "Exception")
          => /\ is_warmed' = is_warmed
             /\ warm_pc[last'.id] = "loading"
             /\ warm_pc'[last'.id] = "raised"
             /\ last'.id = StartupCall => init_pc' = "failed"
       /\ (last'.op = "warm_cache" /\ warm_pc[last'.id] = "idle"
           /\ ~is_warmed)
          => warm_pc'[last'.id] = "loading"]_vars

\* C25 witness: a load has failed, the cache is cold, and the call made
\* last has started the load again.
C25_Witness ==
    /\ ~is_warmed
    /\ last.op = "warm_cache"
    /\ last.outcome = "loading"
    /\ \E c \in WarmCalls : warm_pc[c] = "raised"
    /\ LoadsStarted = 2

\* C26: a subscription is installed only when connect() and warm_cache()
\* have succeeded, no handler is invoked while is_warmed is false, and
\* after a failed startup there is no subscription and no message has been
\* dispatched.
C26_NoDispatchBeforeWarm ==
    /\ subscription # None => (connected /\ is_warmed)
    /\ (cb # NoCb \/ objs # <<>> \/ \E i \in Ids : invoked[i] > 0)
       => (is_warmed /\ subscription # None)
    /\ init_pc = "failed"
       => /\ subscription = None
          /\ cb = NoCb
          /\ \A i \in Ids : invoked[i] = 0

\* C26 witness: the startup has run to its end and the handler of a
\* delivered message has been invoked.
C26_Witness ==
    /\ init_pc = "running"
    /\ last.op = "message_handler"
    /\ cb # NoCb

\* C27: while the handler of one message is suspended, the callback can
\* take any other message that waits on the subscription.
C27_SlowHandlerDoesNotBlockDelivery ==
    \A e \in BagToSet(wire) :
        (/\ cb # NoCb
         /\ e.subject = subscription
         /\ Decodable(e) => Len(objs) < MaxObjs)
        => ENABLED MessageHandler(e)

\* The steps that report a handler failure to _handle_message_error.
FailureOps == {"handler_raised", "_handle_message_error"}

\* The records a step changes.
ChangedRecords == {o \in Refs : objs'[o] # objs[o]}

\* C28: a failure that leaves retry_count <= max_retries sets the record's
\* status to RETRY and its error_message to the failure text, schedules
\* exactly one republish for the subject of the delivery, publishes nothing
\* and leaves the dead-letter table alone; the republish, when its delay has
\* passed, publishes one envelope with the record's id and payload to that
\* subject.
C28_RetryBranchSchedulesOneRepublish ==
    [][/\ (/\ last'.op \in FailureOps
           /\ \E o \in ChangedRecords :
                 objs'[o].retry_count <= objs'[o].max_retries)
          => /\ Cardinality(ChangedRecords) = 1
             /\ \A o \in ChangedRecords :
                   /\ objs'[o].status = "RETRY"
                   /\ objs'[o].error_message = HandlerError
                   /\ objs'[o].retry_count = objs[o].retry_count + 1
                   /\ objs'[o].id = objs[o].id
                   /\ objs'[o].data = objs[o].data
                   /\ \E t \in BagToSet(timers') :
                         /\ timers' = timers (+) SetToBag({t})
                         /\ t.obj = o
                         /\ t.subject = last'.subject
                         /\ cb # NoCb => t.subject = cb.subject
             /\ dlq_messages' = dlq_messages
             /\ wire' \sqsubseteq wire
       /\ last'.op = "_retry_message"
          => \E t \in BagToSet(timers) :
                /\ timers' = timers (-) SetToBag({t})
                /\ \E e \in BagToSet(wire') :
                      /\ wire' = wire (+) SetToBag({e})
                      /\ e.subject = t.subject
                      /\ e.body.id = objs[t.obj].id
                      /\ e.body.data = objs[t.obj].data
                /\ UNCHANGED <<objs, dlq_messages>>]_vars

\* C28 witness: the republish of a record that failed DefaultMaxRetries
\* times has put its envelope on the wire, and nothing is dead-lettered.
C28_Witness ==
    /\ last.op = "_retry_message"
    /\ dlq_messages = <<>>
    /\ \E e \in BagToSet(wire) :
          /\ e.subject = last.subject
          /\ "retry_count" \in DOMAIN e.body
          /\ e.body.retry_count = DefaultMaxRetries
          /\ e.body.id = last.id
          /\ e.body.data = Payload(last.id)

\* The dead-letter subjects and the number of messages published to them
\* (nothing subscribes to them, so nothing leaves).
DlqSubjects == {s \o ".dlq" : s \in Subjects}
DlqPublished(w) ==
    LET D == {e \in BagToSet(w) : e.subject \in DlqSubjects}
    IN BagCardinality([e \in D |-> w[e]])

\* The records a step moves to DEAD_LETTER.
DeadLettered ==
    {o \in Refs : objs[o].status # "DEAD_LETTER"
                  /\ objs'[o].status = "DEAD_LETTER"}

\* C29: a step that moves a record to DEAD_LETTER publishes exactly one
\* message {original_message, error, moved_to_dlq_at} to the ".dlq" subject
\* of the delivery's subject, and no other step publishes to a ".dlq"
\* subject.
C29_DeadLetterPublishesOnce ==
    [][/\ DlqPublished(wire') = DlqPublished(wire) + Cardinality(DeadLettered)
       /\ \A o \in DeadLettered :
             \E e \in BagToSet(wire') :
                /\ CopiesIn(e, wire') = CopiesIn(e, wire) + 1
                /\ e.subject = last'.subject \o ".dlq"
                /\ DOMAIN e.body =
                      {"original_message", "error", "moved_to_dlq_at"}]_vars

\* C30: the k-th retry of a message is scheduled with the base delay of
\* attempt k, so its base delay is greater than the base delay of every
\* earlier retry of the same message.
C30_SuccessiveRetriesBackOff ==
    [][\A t \in BagToSet(timers') :
          CopiesIn(t, timers') > CopiesIn(t, timers)
          => LET i == objs[t.obj].id IN
             /\ t.base = BaseDelay(failed'[i])
             /\ \A p \in 1 .. (t.obj - 1) :
                   (objs[p].id = i /\ objs[p].status = "RETRY")
                   => t.base > BaseDelay(objs[p].retry_count)]_vars

\* C31: every record built for a message carries the created_at of the
\* record of its first delivery, and so does every retry envelope of the
\* message on the wire.
C31_CreatedAtSurvivesRetries ==
    /\ \A o, p \in Refs :
          objs[o].id = objs[p].id => objs[o].created_at = objs[p].created_at
    /\ \A e \in BagToSet(wire) :
          (Decodable(e) /\ "retry_count" \in DOMAIN e.body)
          => /\ "created_at" \in DOMAIN e.body
             /\ \A o \in Refs :
                   objs[o].id = e.body.id
                   => e.body.created_at = objs[o].created_at

\* C31 witness: a retry envelope has just been delivered at a later time
\* than the message was published, and its record has the created_at of the
\* first record.
C31_Witness ==
    /\ Len(objs) >= 2
    /\ last.op = "message_handler"
    /\ objs[Len(objs)].id = objs[1].id
    /\ objs[Len(objs)].status = "PROCESSING"
    /\ objs[Len(objs)].created_at = objs[1].created_at
    /\ now > objs[1].created_at

\* C32: a record whose handler has completed is no longer in the in-flight
\* table, so when every delivered message has completed the table is empty
\* and get_queue_stats() reports processing_messages = 0.
C32_CompletedLeavesInFlight ==
    /\ \A i \in DOMAIN processing_messages :
          objs[processing_messages[i]].status # "COMPLETED"
    /\ (cb = NoCb /\ \A o \in Refs : objs[o].status = "COMPLETED")
       => /\ processing_messages = <<>>
          /\ QueueStats.processing_messages = 0

\* C33: a step that leaves current_workers alone leaves last_scale_time
\* alone, a step that changes current_workers sets last_scale_time to the
\* current time, and for a check_scaling_needs step the one changes exactly
\* when the other does.
C33_ScaleTimeFollowsWorkers ==
    [][/\ current_workers' = current_workers
          => last_scale_time' = last_scale_time
       /\ current_workers' # current_workers
          => last_scale_time' = now
       /\ last'.op = "check_scaling_needs"
          => ((last_scale_time' # last_scale_time)
              <=> (current_workers' # current_workers))]_vars

\* C33 witness: a check made with the cooldown elapsed and a backlog over
\* twice the pool took no action because the pool is at max_workers, and no
\* cooldown has started.
C33_Witness ==
    /\ last.op = "check_scaling_needs"
    /\ last.result = "none"
    /\ current_workers = max_workers
    /\ Cardinality(DOMAIN processing_messages) > 2 * current_workers
    /\ last_scale_time = 0
    /\ now - last_scale_time >= scaling_cooldown

\* The pool was raised above min_workers, every delivered message has been
\* handled, and the clock can still run past the cooldown.
ScaledUpAndDrained ==
    /\ current_workers > min_workers
    /\ cb = NoCb
    /\ wire = EmptyBag
    /\ \A o \in Refs : objs[o].status = "COMPLETED"
    /\ now + scaling_cooldown <= StartTime + MaxCooldowns * scaling_cooldown

\* A check_scaling_needs step has lowered the pool.
CheckScaledDown ==
    /\ last.op = "check_scaling_needs"
    /\ last.result = "scale_down"

\* C34: in the running service, once check_scaling_needs has raised the pool
\* above min_workers under backlog and the delivered messages have been
\* handled, a later check_scaling_needs lowers the pool again.
C34_ScaleDownFollowsDrain == ScaledUpAndDrained ~> CheckScaledDown

\* C35: a record that is COMPLETED stays COMPLETED, and the step in which a
\* handler returns leaves its record COMPLETED and schedules no retry and
\* dead-letters nothing, whether or not the reply could be published.
C35_CompletedIsFinal ==
    [][/\ \A o \in Refs :
             objs[o].status = "COMPLETED" => objs'[o].status = "COMPLETED"
       /\ last'.op = "handler_returned"
          => /\ objs'[cb.obj].status = "COMPLETED"
             /\ timers' = timers
             /\ dlq_messages' = dlq_messages]_vars

\* C36: the work of a replayed record travels under the record's id: while
\* the in-flight table tracks a PENDING record under an id, an envelope with
\* that id waits on the wire, so that its delivery replaces the PENDING
\* record under the same key.
C36_ReplayKeepsId ==
    \A i \in DOMAIN processing_messages :
        objs[processing_messages[i]].status = "PENDING"
        => \E e \in BagToSet(wire) : Decodable(e) /\ e.body.id = i

LoadsInProgress == {c \in WarmCalls : warm_pc[c] = "loading"}

\* C38: warm_cache() calls that overlap do not load twice: at most one call
\* is in the load at a time, and unless a load failed at most one call has
\* loaded in total.
C38_OverlappingCallsLoadOnce ==
    /\ Cardinality(LoadsInProgress) <= 1
    /\ (\A c \in WarmCalls : warm_pc[c] # "raised") => LoadsStarted <= 1

\* The callback is awaiting the handler of a delivery of id i.
Handling(i) == IF cb # NoCb /\ objs[cb.obj].id = i THEN 1 ELSE 0

\* C39: a published message is at any time in one place only: waiting on
\* the wire, in the hands of the callback, or waiting in one retry timer;
\* so at most one retry timer of its id is pending, and a new one is created
\* only when the republish of the previous one was delivered and ended in
\* the error path.
C39_OneRetryTimerPerMessage ==
    \A i \in 1 .. MaxIds :
        /\ TimersFor(i, timers) <= 1
        /\ TimersFor(i, timers) + EnvelopesFor(i, wire) + Handling(i) <= 1

\* C39 witness: the second retry of a message is pending, after the first
\* retry was delivered and failed.
C39_Witness ==
    \E t \in BagToSet(timers) :
        /\ t.obj >= 2
        /\ objs[t.obj].id \in 1 .. MaxIds
        /\ failed[objs[t.obj].id] >= 2
        /\ objs[t.obj].status = "RETRY"
        /\ TimersFor(objs[t.obj].id, timers) = 1

====
